---- MODULE Spec2Model ----
(***************************************************************************)
(* Model of attestation-service/src/verifier/tdx/claims.rs: the TDX claims *)
(* builder (generate_parsed_claim), the CCEL extractor (parse_ccel), the   *)
(* td-shim platform-config-info decoder (TdShimPlatformConfigInfo::        *)
(* try_from) and the kernel command-line tokenizer                         *)
(* (parse_kernel_parameters).                                              *)
(*                                                                         *)
(* Bytes are naturals 0..255, a byte slice or a String is a sequence of    *)
(* bytes (a String is its UTF-8 encoding).  A call ends in one of three    *)
(* ways: kind "Ok" (Result::Ok), "Err" (Result::Err) or "Panic" (the       *)
(* thread unwinds: no Result is returned at all).  usize is 64 bits wide,  *)
(* so 20 + info_length never wraps.                                        *)
(***************************************************************************)
EXTENDS Naturals, Sequences, FiniteSets

VARIABLES op, quote, cc_eventlog, data, kernel_parameters, ret

vars == <<op, quote, cc_eventlog, data, kernel_parameters, ret>>

(***************************************************************************)
(* Bounds of the model.                                                    *)
(***************************************************************************)
\* longest kernel command line handed to parse_kernel_parameters directly
MaxLen == 4

\* longest run of bytes following the 20-byte header of an event buffer
MaxData == 2

\* number of distinct quotes
NumQuotes == 2

(***************************************************************************)
(* Strings, Option and serde_json values.                                  *)
(***************************************************************************)
Min(a, b) == IF a < b THEN a ELSE b

\* Ord for String / str: byte-wise lexicographic
StrLess(a, b) ==
    \E i \in 1..(Min(Len(a), Len(b)) + 1) :
        /\ \A j \in 1..(i - 1) : a[j] = b[j]
        /\ \/ i > Len(a) /\ i <= Len(b)
           \/ i <= Len(a) /\ i <= Len(b) /\ a[i] < b[i]

None == [some |-> FALSE, v |-> <<>>]

Some(x) == [some |-> TRUE, v |-> x]

Null == [t |-> "Null", s |-> <<>>, m |-> <<>>]

String(x) == [t |-> "String", s |-> x, m |-> <<>>]

Object(x) == [t |-> "Object", s |-> <<>>, m |-> x]

(***************************************************************************)
(* serde_json::Map<String, Value> (a BTreeMap: the crate's default): the   *)
(* entries in ascending key order, one entry per key.                      *)
(***************************************************************************)
MapNew == <<>>

MapHas(m, k) == \E i \in DOMAIN m : m[i].k = k

MapGet(m, k) == m[CHOOSE i \in DOMAIN m : m[i].k = k].v

MapKeys(m) == {m[i].k : i \in DOMAIN m}

\* a faulty insert that appends a new key at the end (insertion order)
MapInsertAppend(m, k, v) ==
    IF MapHas(m, k)
    THEN [i \in DOMAIN m |-> IF m[i].k = k THEN [k |-> k, v |-> v] ELSE m[i]]
    ELSE Append(m, [k |-> k, v |-> v])

\* a faulty insert that keeps the value of a key already present
MapInsertKeepFirst(m, k, v) ==
    IF MapHas(m, k)
    THEN m
    ELSE LET n == Cardinality({i \in DOMAIN m : StrLess(m[i].k, k)})
         IN  SubSeq(m, 1, n) \o <<[k |-> k, v |-> v]>> \o SubSeq(m, n + 1, Len(m))

MapInsert(m, k, v) ==
    IF MapHas(m, k)
    THEN [i \in DOMAIN m |-> IF m[i].k = k THEN [k |-> k, v |-> v] ELSE m[i]]
    ELSE LET n == Cardinality({i \in DOMAIN m : StrLess(m[i].k, k)})
         IN  SubSeq(m, 1, n) \o <<[k |-> k, v |-> v]>> \o SubSeq(m, n + 1, Len(m))

(***************************************************************************)
(* String::from_utf8: the validity check of the standard library.          *)
(***************************************************************************)
IsCont(b) == b >= 128 /\ b <= 191

RECURSIVE Utf8ValidFrom(_, _)
Utf8ValidFrom(b, i) ==
    IF i > Len(b) THEN TRUE
    ELSE LET c == b[i]
             n == Len(b)
         IN  IF c < 128 THEN Utf8ValidFrom(b, i + 1)
             ELSE IF c >= 194 /\ c <= 223
             THEN i + 1 <= n /\ IsCont(b[i + 1]) /\ Utf8ValidFrom(b, i + 2)
             ELSE IF c >= 224 /\ c <= 239
             THEN /\ i + 2 <= n
                  /\ IF c = 224 THEN b[i + 1] >= 160 /\ b[i + 1] <= 191
                     ELSE IF c = 237 THEN b[i + 1] >= 128 /\ b[i + 1] <= 159
                     ELSE IsCont(b[i + 1])
                  /\ IsCont(b[i + 2])
                  /\ Utf8ValidFrom(b, i + 3)
             ELSE IF c >= 240 /\ c <= 244
             THEN /\ i + 3 <= n
                  /\ IF c = 240 THEN b[i + 1] >= 144 /\ b[i + 1] <= 191
                     ELSE IF c = 244 THEN b[i + 1] >= 128 /\ b[i + 1] <= 143
                     ELSE IsCont(b[i + 1])
                  /\ IsCont(b[i + 2])
                  /\ IsCont(b[i + 3])
                  /\ Utf8ValidFrom(b, i + 4)
             ELSE FALSE

FromUtf8(b) == Utf8ValidFrom(b, 1)

(***************************************************************************)
(* parse_kernel_parameters.                                                *)
(***************************************************************************)
\* a faulty separator set that forgets NUL
SeparatorsNoNul == {32, 10, 13}

\* [' ', '\n', '\r', '\0']
Separators == {32, 10, 13, 0}

\* '='
EqSign == {61}

\* str::split: the pieces between delimiters, empty pieces included.  The
\* delimiters are ASCII, so splitting the UTF-8 bytes splits the chars.
RECURSIVE SplitAcc(_, _, _, _)
SplitAcc(s, delims, i, cur) ==
    IF i > Len(s) THEN <<cur>>
    ELSE IF s[i] \in delims
         THEN <<cur>> \o SplitAcc(s, delims, i + 1, <<>>)
         ELSE SplitAcc(s, delims, i + 1, Append(cur, s[i]))

Split(s, delims) == SplitAcc(s, delims, 1, <<>>)

\* a faulty classifier that splits at the first '=' only (splitn(2, '='))
FilterMapItemFirstEq(item) ==
    IF item = <<>> THEN None
    ELSE IF \A i \in DOMAIN item : item[i] # 61
         THEN Some([k |-> item, v |-> Null])
         ELSE LET e == CHOOSE i \in DOMAIN item :
                           item[i] = 61 /\ \A j \in 1..(i - 1) : item[j] # 61
              IN  Some([k |-> SubSeq(item, 1, e - 1),
                        v |-> String(SubSeq(item, e + 1, Len(item)))])

\* the closure handed to filter_map
FilterMapItem(item) ==
    IF item = <<>> THEN None
    ELSE LET it == Split(item, EqSign)
         IN  IF Len(it) = 1 THEN Some([k |-> it[1], v |-> Null])
             ELSE IF Len(it) = 2 THEN Some([k |-> it[1], v |-> String(it[2])])
             ELSE None

\* collect::<Map<String, Value>>(): the entries inserted in iteration order
RECURSIVE Collect(_, _, _)
Collect(items, i, m) ==
    IF i > Len(items) THEN m
    ELSE LET e == FilterMapItem(items[i])
         IN  Collect(items, i + 1,
                     IF e.some THEN MapInsert(m, e.v.k, e.v.v) ELSE m)

ParseKernelParameters(params) ==
    IF ~FromUtf8(params)
    THEN [kind |-> "Err", err |-> "FromUtf8Error", parameters |-> MapNew]
    ELSE [kind |-> "Ok", err |-> "",
          parameters |-> Collect(Split(params, Separators), 1, MapNew)]

(***************************************************************************)
(* TdShimPlatformConfigInfo::try_from.                                     *)
(***************************************************************************)
\* a faulty read of the length field, most significant byte first
ReadU32BigEndian(b) == b[4] + 256 * b[3] + 65536 * b[2] + 16777216 * b[1]

\* read_u32::<LittleEndian>() of a 4-byte slice
ReadU32(b) == b[1] + 256 * b[2] + 65536 * b[3] + 16777216 * b[4]

NoInfo == [descriptor |-> <<>>, info_length |-> 0, data |-> <<>>]

\* Indexing a slice with a range whose end is past the slice's length panics.
TryFrom(d) ==
    IF Len(d) < 16 + 4
    THEN [kind |-> "Err", err |-> "give data slice is too short", info |-> NoInfo]
    ELSE LET descriptor == SubSeq(d, 1, 16)
             info_length == ReadU32(SubSeq(d, 16 + 1, 16 + 4))
         IN  IF 16 + 4 + info_length > Len(d)
             THEN [kind |-> "Panic", err |-> "range end index out of range",
                   info |-> NoInfo]
             ELSE [kind |-> "Ok", err |-> "",
                   info |-> [descriptor |-> descriptor,
                             info_length |-> info_length,
                             data |-> SubSeq(d, 16 + 4 + 1, 16 + 4 + info_length)]]

(***************************************************************************)
(* parse_ccel.  The event log is the answers of its three queries:         *)
(* query_digest(TdShimKernel), query_digest(TdvfKernel) and                *)
(* query_event_data(TdShimKernelParams).                                   *)
(***************************************************************************)
\* "version"
K_version == <<118, 101, 114, 115, 105, 111, 110>>

\* "att_key_type"
K_att_key_type == <<97, 116, 116, 95, 107, 101, 121, 95, 116, 121, 112, 101>>

\* "tee_type"
K_tee_type == <<116, 101, 101, 95, 116, 121, 112, 101>>

\* "reserved"
K_reserved == <<114, 101, 115, 101, 114, 118, 101, 100>>

\* "vendor_id"
K_vendor_id == <<118, 101, 110, 100, 111, 114, 95, 105, 100>>

\* "user_data"
K_user_data == <<117, 115, 101, 114, 95, 100, 97, 116, 97>>

\* "tcb_svn"
K_tcb_svn == <<116, 99, 98, 95, 115, 118, 110>>

\* "mr_seam"
K_mr_seam == <<109, 114, 95, 115, 101, 97, 109>>

\* "mrsigner_seam"
K_mrsigner_seam == <<109, 114, 115, 105, 103, 110, 101, 114, 95, 115, 101, 97, 109>>

\* "seam_attributes"
K_seam_attributes == <<115, 101, 97, 109, 95, 97, 116, 116, 114, 105, 98, 117, 116, 101, 115>>

\* "td_attributes"
K_td_attributes == <<116, 100, 95, 97, 116, 116, 114, 105, 98, 117, 116, 101, 115>>

\* "xfam"
K_xfam == <<120, 102, 97, 109>>

\* "mr_td"
K_mr_td == <<109, 114, 95, 116, 100>>

\* "mr_config_id"
K_mr_config_id == <<109, 114, 95, 99, 111, 110, 102, 105, 103, 95, 105, 100>>

\* "mr_owner"
K_mr_owner == <<109, 114, 95, 111, 119, 110, 101, 114>>

\* "mr_owner_config"
K_mr_owner_config == <<109, 114, 95, 111, 119, 110, 101, 114, 95, 99, 111, 110, 102, 105, 103>>

\* "report_data"
K_report_data == <<114, 101, 112, 111, 114, 116, 95, 100, 97, 116, 97>>

\* "header"
K_header == <<104, 101, 97, 100, 101, 114>>

\* "body"
K_body == <<98, 111, 100, 121>>

\* "quote"
K_quote == <<113, 117, 111, 116, 101>>

\* "ccel"
K_ccel == <<99, 99, 101, 108>>

\* "kernel"
K_kernel == <<107, 101, 114, 110, 101, 108>>

\* "kernel_parameters"
K_kernel_parameters == <<107, 101, 114, 110, 101, 108, 95, 112, 97, 114, 97, 109, 101, 116, 101, 114, 115>>

\* the kernel-parameters arm of parse_ccel
ParseCcelParams(ccel, ccel_map) ==
    IF ccel.TdShimKernelParams.some
    THEN LET td_shim_platform_config_info == TryFrom(ccel.TdShimKernelParams.v)
         IN  IF td_shim_platform_config_info.kind # "Ok"
             THEN [kind |-> td_shim_platform_config_info.kind,
                   err |-> td_shim_platform_config_info.err,
                   ccel_map |-> ccel_map]
             ELSE LET parameters ==
                          ParseKernelParameters(td_shim_platform_config_info.info.data)
                  IN  IF parameters.kind # "Ok"
                      THEN [kind |-> parameters.kind, err |-> parameters.err,
                            ccel_map |-> ccel_map]
                      ELSE [kind |-> "Ok", err |-> "",
                            ccel_map |-> MapInsert(ccel_map, K_kernel_parameters,
                                                   Object(parameters.parameters))]
    ELSE [kind |-> "Ok", err |-> "", ccel_map |-> ccel_map]

\* a faulty extractor that queries TDVF first, so that td-shim wins
ParseCcelTdShimLast(ccel, ccel_map) ==
    LET m1 == IF ccel.TdvfKernel.some
              THEN MapInsert(ccel_map, K_kernel, String(ccel.TdvfKernel.v))
              ELSE ccel_map
        m2 == IF ccel.TdShimKernel.some
              THEN MapInsert(m1, K_kernel, String(ccel.TdShimKernel.v))
              ELSE m1
    IN  ParseCcelParams(ccel, m2)

\* a faulty extractor that reports an empty kernel_parameters object when the
\* event log has no kernel-parameters event
ParseCcelEmptyParams(ccel, ccel_map) ==
    LET m1 == IF ccel.TdShimKernel.some
              THEN MapInsert(ccel_map, K_kernel, String(ccel.TdShimKernel.v))
              ELSE ccel_map
        m2 == IF ccel.TdvfKernel.some
              THEN MapInsert(m1, K_kernel, String(ccel.TdvfKernel.v))
              ELSE m1
    IN  IF ccel.TdShimKernelParams.some
        THEN ParseCcelParams(ccel, m2)
        ELSE [kind |-> "Ok", err |-> "",
              ccel_map |-> MapInsert(m2, K_kernel_parameters, Object(MapNew))]

ParseCcel(ccel, ccel_map) ==
    LET m1 == IF ccel.TdShimKernel.some
              THEN MapInsert(ccel_map, K_kernel, String(ccel.TdShimKernel.v))
              ELSE ccel_map
        m2 == IF ccel.TdvfKernel.some
              THEN MapInsert(m1, K_kernel, String(ccel.TdvfKernel.v))
              ELSE m1
    IN  ParseCcelParams(ccel, m2)

(***************************************************************************)
(* generate_parsed_claim.                                                  *)
(***************************************************************************)
\* the digits of hex::encode
HexChar(n) == IF n < 10 THEN 48 + n ELSE 87 + n

\* a faulty encoder that writes the low nibble of a byte first
HexEncodeLowFirst(b) ==
    [i \in 1..(2 * Len(b)) |->
        IF i % 2 = 1 THEN HexChar(b[(i + 1) \div 2] % 16)
        ELSE HexChar(b[i \div 2] \div 16)]

\* hex::encode: two lowercase digits per byte, high nibble first
HexEncode(b) ==
    [i \in 1..(2 * Len(b)) |->
        IF i % 2 = 1 THEN HexChar(b[(i + 1) \div 2] \div 16)
        ELSE HexChar(b[i \div 2] % 16)]

\* parse_claim!(map, key, expr)
ParseClaimHex(map, key, field) == MapInsert(map, key, String(HexEncode(field)))

\* parse_claim!(map, key, ident)
ParseClaimObject(map, key, field) == MapInsert(map, key, Object(field))

QuoteHeaderMap(q) ==
    LET
        quote_header1 == ParseClaimHex(MapNew, K_version, q.header.version)
        quote_header2 == ParseClaimHex(quote_header1, K_att_key_type, q.header.att_key_type)
        quote_header3 == ParseClaimHex(quote_header2, K_tee_type, q.header.tee_type)
        quote_header4 == ParseClaimHex(quote_header3, K_reserved, q.header.reserved)
        quote_header5 == ParseClaimHex(quote_header4, K_vendor_id, q.header.vendor_id)
        quote_header6 == ParseClaimHex(quote_header5, K_user_data, q.header.user_data)
    IN  quote_header6

QuoteBodyMap(q) ==
    LET
        quote_body1 == ParseClaimHex(MapNew, K_tcb_svn, q.report_body.tcb_svn)
        quote_body2 == ParseClaimHex(quote_body1, K_mr_seam, q.report_body.mr_seam)
        quote_body3 == ParseClaimHex(quote_body2, K_mrsigner_seam, q.report_body.mrsigner_seam)
        quote_body4 == ParseClaimHex(quote_body3, K_seam_attributes, q.report_body.seam_attributes)
        quote_body5 == ParseClaimHex(quote_body4, K_td_attributes, q.report_body.td_attributes)
        quote_body6 == ParseClaimHex(quote_body5, K_xfam, q.report_body.xfam)
        quote_body7 == ParseClaimHex(quote_body6, K_mr_td, q.report_body.mr_td)
        quote_body8 == ParseClaimHex(quote_body7, K_mr_config_id, q.report_body.mr_config_id)
        quote_body9 == ParseClaimHex(quote_body8, K_mr_owner, q.report_body.mr_owner)
        quote_body10 == ParseClaimHex(quote_body9, K_mr_owner_config, q.report_body.mr_owner_config)
        quote_body11 == ParseClaimHex(quote_body10, K_report_data, q.report_body.report_data)
    IN  quote_body11

QuoteMap(q) ==
    LET quote_map1 == ParseClaimObject(MapNew, K_header, QuoteHeaderMap(q))
    IN  ParseClaimObject(quote_map1, K_body, QuoteBodyMap(q))

GenerateParsedClaim(q, ccel_opt) ==
    LET quote_map == QuoteMap(q)
        parsed == IF ccel_opt.some
                  THEN ParseCcel(ccel_opt.v, MapNew)
                  ELSE [kind |-> "Ok", err |-> "", ccel_map |-> MapNew]
    IN  IF parsed.kind # "Ok"
        THEN [kind |-> parsed.kind, err |-> parsed.err, claims |-> None]
        ELSE LET claims1 == ParseClaimObject(MapNew, K_quote, quote_map)
                 claims2 == ParseClaimObject(claims1, K_ccel, parsed.ccel_map)
             IN  [kind |-> "Ok", err |-> "", claims |-> Some(Object(claims2))]

(***************************************************************************)
(* Inputs.                                                                 *)
(***************************************************************************)
RECURSIVE SeqsUpTo(_, _)
SeqsUpTo(S, n) ==
    IF n = 0 THEN {<<>>}
    ELSE LET r == SeqsUpTo(S, n - 1)
         IN  r \cup {Append(s, x) : s \in {t \in r : Len(t) = n - 1}, x \in S}

\* NUL \n \r space ' = a, and the two bytes of U+00E9
ParamBytes == {0, 10, 13, 32, 39, 61, 97, 195, 169}

Payloads == SeqsUpTo(ParamBytes, MaxLen)

NoQuote == <<>>

\* the bytes of quote n's field number f, w bytes wide
FieldBytes(w, f, n) == [j \in 1..w |-> (n * 89 + f * 31 + j * 7) % 256]

\* Quote { header, report_body }: the fields generate_parsed_claim reads
QuoteOf(n) ==
    [header |-> [version |-> FieldBytes(2, 1, n),
                att_key_type |-> FieldBytes(2, 2, n),
                tee_type |-> FieldBytes(4, 3, n),
                reserved |-> FieldBytes(4, 4, n),
                vendor_id |-> FieldBytes(16, 5, n),
                user_data |-> FieldBytes(20, 6, n)],
     report_body |-> [tcb_svn |-> FieldBytes(16, 7, n),
                     mr_seam |-> FieldBytes(48, 8, n),
                     mrsigner_seam |-> FieldBytes(48, 9, n),
                     seam_attributes |-> FieldBytes(8, 10, n),
                     td_attributes |-> FieldBytes(8, 11, n),
                     xfam |-> FieldBytes(8, 12, n),
                     mr_td |-> FieldBytes(48, 13, n),
                     mr_config_id |-> FieldBytes(48, 14, n),
                     mr_owner |-> FieldBytes(48, 15, n),
                     mr_owner_config |-> FieldBytes(48, 16, n),
                     report_data |-> FieldBytes(64, 17, n)]]

Quotes == {QuoteOf(n) : n \in 1..NumQuotes}

\* event-data bytes after the header: space = a and a byte no UTF-8 text holds
DataBytes == {32, 61, 97, 255}

Descriptors == {[j \in 1..16 |-> j], [j \in 1..16 |-> 170]}

LengthFields == {<<a, b, 0, c>> : a \in 0..3, b \in 0..1, c \in 0..1}

\* whole event buffers, and every buffer cut short of its 20-byte header
EventBuffers ==
    LET whole == {d \o l \o t : d \in Descriptors, l \in LengthFields,
                                t \in SeqsUpTo(DataBytes, MaxData)}
        short == {SubSeq(d \o l, 1, n) : d \in Descriptors,
                                         l \in {<<0, 0, 0, 0>>, <<1, 0, 0, 0>>},
                                         n \in 0..19}
    IN  whole \cup short

\* the event buffers of the event logs handed to generate_parsed_claim
LogBuffers ==
    {b \in EventBuffers :
        /\ Len(b) \in {19} \cup (20..(20 + MaxData))
        /\ \A j \in 1..Min(16, Len(b)) : b[j] = j
        /\ Len(b) >= 20 => b[18] = 0 /\ b[20] = 0}

\* digests as query_digest returns them: hex strings
Digests == {HexEncode(<<91, 122>>), HexEncode(<<192, 222>>)}

OptionOf(S) == {None} \cup {Some(x) : x \in S}

CcEventLogs ==
    [TdShimKernel : OptionOf(Digests), TdvfKernel : OptionOf(Digests),
     TdShimKernelParams : OptionOf(LogBuffers)]

(***************************************************************************)
(* The state machine.  The program keeps no state between calls: a         *)
(* behaviour is one call.  Init is the call about to be made (the function *)
(* and its arguments, no outcome yet), and the action of a function runs   *)
(* it to its end and records the outcome.                                  *)
(***************************************************************************)
Pending == [kind |-> "pending"]

Init ==
    /\ ret = Pending
    /\ \/ /\ op = "parse_kernel_parameters"
          /\ kernel_parameters \in Payloads
          /\ quote = NoQuote
          /\ cc_eventlog = None
          /\ data = <<>>
       \/ /\ op = "try_from"
          /\ data \in EventBuffers
          /\ quote = NoQuote
          /\ cc_eventlog = None
          /\ kernel_parameters = <<>>
       \/ /\ op = "generate_parsed_claim"
          /\ quote \in Quotes
          /\ cc_eventlog \in OptionOf(CcEventLogs)
          /\ data = <<>>
          /\ kernel_parameters = <<>>

CallParseKernelParameters ==
    /\ op = "parse_kernel_parameters"
    /\ ret = Pending
    /\ ret' = ParseKernelParameters(kernel_parameters)
    /\ UNCHANGED <<op, quote, cc_eventlog, data, kernel_parameters>>

CallTryFrom ==
    /\ op = "try_from"
    /\ ret = Pending
    /\ ret' = TryFrom(data)
    /\ UNCHANGED <<op, quote, cc_eventlog, data, kernel_parameters>>

CallGenerateParsedClaim ==
    /\ op = "generate_parsed_claim"
    /\ ret = Pending
    /\ ret' = GenerateParsedClaim(quote, cc_eventlog)
    /\ UNCHANGED <<op, quote, cc_eventlog, data, kernel_parameters>>

Next ==
    \/ CallParseKernelParameters
    \/ CallTryFrom
    \/ CallGenerateParsedClaim

Spec == Init /\ [][Next]_vars

(***************************************************************************)
(* The kernel command line read declaratively, for the statements about    *)
(* parse_kernel_parameters: a token is a maximal run of bytes that are     *)
(* none of space, \n, \r, NUL; it is the pair of its first and last index. *)
(***************************************************************************)
IsSepByte(b) == b = 32 \/ b = 10 \/ b = 13 \/ b = 0

Tokens(p) ==
    {t \in (DOMAIN p) \X (DOMAIN p) :
        /\ t[1] <= t[2]
        /\ \A k \in t[1]..t[2] : ~IsSepByte(p[k])
        /\ (t[1] = 1 \/ IsSepByte(p[t[1] - 1]))
        /\ (t[2] = Len(p) \/ IsSepByte(p[t[2] + 1]))}

EqPositions(p, t) == {k \in t[1]..t[2] : p[k] = 61}

Accepted(p) == {t \in Tokens(p) : Cardinality(EqPositions(p, t)) <= 1}

Dropped(p) == {t \in Tokens(p) : Cardinality(EqPositions(p, t)) >= 2}

KeyOf(p, t) ==
    IF EqPositions(p, t) = {} THEN SubSeq(p, t[1], t[2])
    ELSE SubSeq(p, t[1], (CHOOSE e \in EqPositions(p, t) : TRUE) - 1)

ValueOf(p, t) ==
    IF EqPositions(p, t) = {} THEN Null
    ELSE String(SubSeq(p, (CHOOSE e \in EqPositions(p, t) : TRUE) + 1, t[2]))

\* the accepted tokens of p whose key is k
Occurrences(p, k) == {t \in Accepted(p) : KeyOf(p, t) = k}

FirstOccurrence(p, k) ==
    CHOOSE t \in Occurrences(p, k) : \A u \in Occurrences(p, k) : t[1] <= u[1]

LastOccurrence(p, k) ==
    CHOOSE t \in Occurrences(p, k) : \A u \in Occurrences(p, k) : u[1] <= t[1]

Tokenized == op = "parse_kernel_parameters" /\ ret # Pending

TokenizedOk == Tokenized /\ ret.kind = "Ok"

\* C5: an ASCII payload is always tokenized; the keys of the returned map are
\* exactly the keys of the tokens with at most one '=' (a token with two or
\* more '=' contributes no key), and a key with a single such token maps to
\* null when the token has no '=' and to the text after the '=' otherwise.
C5_TokenClassification ==
    Tokenized =>
        /\ (\A i \in DOMAIN kernel_parameters : kernel_parameters[i] < 128)
              => ret.kind = "Ok"
        /\ ret.kind = "Ok" =>
              /\ MapKeys(ret.parameters)
                    = {KeyOf(kernel_parameters, t) : t \in Accepted(kernel_parameters)}
              /\ \A t \in Accepted(kernel_parameters) :
                    Occurrences(kernel_parameters, KeyOf(kernel_parameters, t)) = {t}
                        => MapGet(ret.parameters, KeyOf(kernel_parameters, t))
                              = ValueOf(kernel_parameters, t)

\* a payload with a dropped token beside an emitted one whose value keeps a quote
C5_Witness ==
    /\ TokenizedOk
    /\ Dropped(kernel_parameters) # {}
    /\ \E t \in Accepted(kernel_parameters) :
          /\ MapHas(ret.parameters, KeyOf(kernel_parameters, t))
          /\ 39 \in {kernel_parameters[k] : k \in t[1]..t[2]}

ReplaceAt(p, i, b) == [k \in DOMAIN p |-> IF k = i THEN b ELSE p[k]]

InsertAfter(p, i, b) == SubSeq(p, 1, i) \o <<b>> \o SubSeq(p, i + 1, Len(p))

\* C6: replacing a separator of the payload by any of space, \n, \r, NUL, or
\* adding one of them in front, at the end or next to a separator, leaves the
\* outcome of parse_kernel_parameters unchanged.
C6_SeparatorsInterchangeable ==
    Tokenized =>
        /\ \A i \in DOMAIN kernel_parameters : \A b \in {32, 10, 13, 0} :
              IsSepByte(kernel_parameters[i])
                  => ParseKernelParameters(ReplaceAt(kernel_parameters, i, b)) = ret
        /\ \A i \in 0..Len(kernel_parameters) : \A b \in {32, 10, 13, 0} :
              (\/ i = 0
               \/ i = Len(kernel_parameters)
               \/ IsSepByte(kernel_parameters[i])
               \/ IsSepByte(kernel_parameters[i + 1]))
                  => ParseKernelParameters(InsertAfter(kernel_parameters, i, b)) = ret

\* two entries out of a payload that holds a NUL and another separator
C6_Witness ==
    /\ TokenizedOk
    /\ Len(ret.parameters) = 2
    /\ \E i, j \in DOMAIN kernel_parameters :
          kernel_parameters[i] = 0 /\ kernel_parameters[j] \in {32, 10, 13}

RECURSIVE LexBefore(_, _)
LexBefore(a, b) ==
    IF b = <<>> THEN FALSE
    ELSE IF a = <<>> THEN TRUE
    ELSE IF Head(a) # Head(b) THEN Head(a) < Head(b)
    ELSE LexBefore(Tail(a), Tail(b))

C10_LastOccurrenceWins ==
    TokenizedOk =>
        \A t \in Accepted(kernel_parameters) :
            LET k == KeyOf(kernel_parameters, t)
            IN  Cardinality(Occurrences(kernel_parameters, k)) >= 2 =>
                   /\ Cardinality({i \in DOMAIN ret.parameters :
                                      ret.parameters[i].k = k}) = 1
                   /\ MapGet(ret.parameters, k)
                         = ValueOf(kernel_parameters, LastOccurrence(kernel_parameters, k))

\* one key, first with one value and last with another, and a dropped token
\* or not in between
C10_Witness ==
    /\ TokenizedOk
    /\ \E t, u \in Accepted(kernel_parameters) :
          /\ t[1] < u[1]
          /\ KeyOf(kernel_parameters, t) = KeyOf(kernel_parameters, u)
          /\ ValueOf(kernel_parameters, t) # ValueOf(kernel_parameters, u)

(***************************************************************************)
(* Statements about TdShimPlatformConfigInfo::try_from.                    *)
(***************************************************************************)
Decoded == op = "try_from" /\ ret # Pending

\* the length field of a buffer of at least 20 bytes, least significant byte first
LengthField(d) == d[17] + 256 * d[18] + 65536 * d[19] + 16777216 * d[20]

\* a buffer shorter than its header or than its header plus declared length
Truncated(d) == Len(d) < 20 \/ 20 + LengthField(d) > Len(d)

\* C1: decoding a buffer shorter than 20 bytes, or whose length field makes
\* 20 + length exceed the buffer, ends in an error value and never in a panic.
C1_TruncationFailsCleanly ==
    Decoded /\ Truncated(data) => ret.kind = "Err"

\* C9: after a successful decode 20 + length fits the buffer, descriptor is
\* bytes 0..16, length is bytes 16..20 read least significant byte first, and
\* payload is the length bytes that follow byte 20 and nothing after them.
C9_DecodedView ==
    Decoded /\ ret.kind = "Ok" =>
        /\ 20 + ret.info.info_length <= Len(data)
        /\ ret.info.descriptor = [j \in 1..16 |-> data[j]]
        /\ ret.info.info_length = LengthField(data)
        /\ Len(ret.info.data) = ret.info.info_length
        /\ \A j \in 1..ret.info.info_length : ret.info.data[j] = data[20 + j]

\* a decoded payload followed in the buffer by bytes that are not part of it
C9_Witness ==
    /\ Decoded
    /\ ret.kind = "Ok"
    /\ ret.info.info_length >= 1
    /\ Len(data) > 20 + ret.info.info_length

(***************************************************************************)
(* Statements about generate_parsed_claim and parse_ccel.                  *)
(***************************************************************************)
Built == op = "generate_parsed_claim" /\ ret # Pending

BuiltOk == Built /\ ret.kind = "Ok"

\* the document's value under a top-level key
Section(k) == MapGet(ret.claims.v.m, k)

HexValue(c) ==
    IF c >= 48 /\ c <= 57 THEN c - 48
    ELSE IF c >= 97 /\ c <= 102 THEN c - 87
    ELSE 256

\* the bytes a string of lowercase hex digits stands for
HexDecode(s) ==
    [j \in 1..(Len(s) \div 2) |-> 16 * HexValue(s[2 * j - 1]) + HexValue(s[2 * j])]

\* value v is the hex string of exactly the bytes b
IsHexOf(v, b) ==
    v.t = "String" /\ Len(v.s) = 2 * Len(b) /\ HexDecode(v.s) = b

HeaderKeys ==
    {K_version, K_att_key_type, K_tee_type, K_reserved, K_vendor_id, K_user_data}

BodyKeys ==
    {K_tcb_svn, K_mr_seam, K_mrsigner_seam, K_seam_attributes, K_td_attributes,
     K_xfam, K_mr_td, K_mr_config_id, K_mr_owner, K_mr_owner_config, K_report_data}

\* the kernel-parameters event of the event log does not decode
ParamsUndecodable ==
    /\ cc_eventlog.some
    /\ cc_eventlog.v.TdShimKernelParams.some
    /\ LET d == cc_eventlog.v.TdShimKernelParams.v
       IN  \/ Truncated(d)
           \/ ~FromUtf8([j \in 1..LengthField(d) |-> d[20 + j]])

\* C2: when the kernel-parameters event is present and does not decode, the
\* call returns an error and no document.
C2_DecodeFailureIsAnError ==
    Built /\ ParamsUndecodable => ret.kind = "Err" /\ ~ret.claims.some

\* C3: without an event log the call succeeds, ccel is the empty map and quote
\* holds header and body with every field as the hex string of its bytes.
C3_NoEventLog ==
    Built /\ ~cc_eventlog.some =>
        /\ ret.kind = "Ok"
        /\ ret.claims.some
        /\ Section(K_ccel) = Object(<<>>)
        /\ LET h == MapGet(Section(K_quote).m, K_header).m
               b == MapGet(Section(K_quote).m, K_body).m
           IN  /\ MapKeys(Section(K_quote).m) = {K_header, K_body}
               /\ MapKeys(h) = HeaderKeys
               /\ MapKeys(b) = BodyKeys
               /\ IsHexOf(MapGet(h, K_version), quote.header.version)
               /\ IsHexOf(MapGet(h, K_att_key_type), quote.header.att_key_type)
               /\ IsHexOf(MapGet(h, K_tee_type), quote.header.tee_type)
               /\ IsHexOf(MapGet(h, K_reserved), quote.header.reserved)
               /\ IsHexOf(MapGet(h, K_vendor_id), quote.header.vendor_id)
               /\ IsHexOf(MapGet(h, K_user_data), quote.header.user_data)
               /\ IsHexOf(MapGet(b, K_tcb_svn), quote.report_body.tcb_svn)
               /\ IsHexOf(MapGet(b, K_mr_seam), quote.report_body.mr_seam)
               /\ IsHexOf(MapGet(b, K_mrsigner_seam), quote.report_body.mrsigner_seam)
               /\ IsHexOf(MapGet(b, K_seam_attributes), quote.report_body.seam_attributes)
               /\ IsHexOf(MapGet(b, K_td_attributes), quote.report_body.td_attributes)
               /\ IsHexOf(MapGet(b, K_xfam), quote.report_body.xfam)
               /\ IsHexOf(MapGet(b, K_mr_td), quote.report_body.mr_td)
               /\ IsHexOf(MapGet(b, K_mr_config_id), quote.report_body.mr_config_id)
               /\ IsHexOf(MapGet(b, K_mr_owner), quote.report_body.mr_owner)
               /\ IsHexOf(MapGet(b, K_mr_owner_config), quote.report_body.mr_owner_config)
               /\ IsHexOf(MapGet(b, K_report_data), quote.report_body.report_data)

\* a call without an event log that has returned its document
C3_Witness == BuiltOk /\ ~cc_eventlog.some /\ ret.claims.some

\* C4: under "kernel" stands the TDVF digest when the event log has one, else
\* the td-shim digest when it has one, else nothing.
C4_KernelDigestOrder ==
    BuiltOk /\ cc_eventlog.some =>
        LET a == cc_eventlog.v.TdShimKernel
            b == cc_eventlog.v.TdvfKernel
            ccel == Section(K_ccel).m
        IN  /\ b.some => MapHas(ccel, K_kernel) /\ MapGet(ccel, K_kernel) = String(b.v)
            /\ ~b.some /\ a.some
                  => MapHas(ccel, K_kernel) /\ MapGet(ccel, K_kernel) = String(a.v)
            /\ ~b.some /\ ~a.some => ~MapHas(ccel, K_kernel)

\* both digests in the event log, and different
C4_Witness ==
    /\ BuiltOk
    /\ cc_eventlog.some
    /\ cc_eventlog.v.TdShimKernel.some
    /\ cc_eventlog.v.TdvfKernel.some
    /\ cc_eventlog.v.TdShimKernel.v # cc_eventlog.v.TdvfKernel.v

\* C8: a returned document has exactly the keys quote and ccel; quote exactly
\* header (its 6 fields) and body (its 11 fields); ccel no key but kernel and
\* kernel_parameters, the latter exactly when an event log was given whose
\* kernel-parameters event was found, and then that event is a whole record.
C8_DocumentShape ==
    BuiltOk =>
        /\ ret.claims.some
        /\ ret.claims.v.t = "Object"
        /\ MapKeys(ret.claims.v.m) = {K_quote, K_ccel}
        /\ Section(K_quote).t = "Object"
        /\ MapKeys(Section(K_quote).m) = {K_header, K_body}
        /\ MapKeys(MapGet(Section(K_quote).m, K_header).m) = HeaderKeys
        /\ MapKeys(MapGet(Section(K_quote).m, K_body).m) = BodyKeys
        /\ Section(K_ccel).t = "Object"
        /\ MapKeys(Section(K_ccel).m) \subseteq {K_kernel, K_kernel_parameters}
        /\ MapHas(Section(K_ccel).m, K_kernel_parameters)
              <=> cc_eventlog.some /\ cc_eventlog.v.TdShimKernelParams.some
        /\ MapHas(Section(K_ccel).m, K_kernel_parameters)
              => /\ ~Truncated(cc_eventlog.v.TdShimKernelParams.v)
                 /\ MapGet(Section(K_ccel).m, K_kernel_parameters).t = "Object"

\* a document whose ccel holds a non-empty kernel_parameters object
C8_Witness ==
    /\ BuiltOk
    /\ cc_eventlog.some
    /\ cc_eventlog.v.TdShimKernelParams.some
    /\ MapHas(Section(K_ccel).m, K_kernel_parameters)
    /\ MapGet(Section(K_ccel).m, K_kernel_parameters).m # <<>>

====
